---- MODULE Spec2Model ----
(***************************************************************************)
(* State-machine model of src/utils.py: preprocess_subject, run_ica and    *)
(* create_evokeds, the three stages of the EEG notebook pipeline.          *)
(*                                                                         *)
(* Strings the code manipulates (subject ids, condition labels, file       *)
(* names) are sequences of one-character strings, so that str.replace and  *)
(* f-string formatting are computed character by character.  Frequencies   *)
(* are in tenths of a hertz (0.1 Hz = 1), amplitudes in microvolts.        *)
(***************************************************************************)
EXTENDS Integers, Sequences, FiniteSets, TLC

VARIABLES
    pc,           \* position of the running function
    env,          \* the run's inputs: subject, recording in storage, libraries
    heap,         \* Raw Signal objects, by identity (index = object id)
    raw,          \* the reference the running function holds (0 = none)
    ret,          \* what the last finished function returned (0 = nothing)
    ica,          \* run_ica's local decomposition object
    ic_labels,    \* run_ica's local ic_labels["labels"]
    exclude_idx,  \* run_ica's local exclude_idx
    subject_id,   \* create_evokeds' argument
    events,       \* create_evokeds' local events (rows <<occurrence, code>>)
    event_id,     \* create_evokeds' local event_id (description -> code)
    dirs,         \* whether the directory "fif-files" exists
    files,        \* the files under "fif-files": path -> content
    fam,          \* which of the two loops is running: "win" or "loss"
    i,            \* position of the running loop in its dictionary
    todo,         \* sub-conditions still to process (reordered processing)
    epochs,       \* the loops' local epochs
    reject,       \* the loops' local reject
    all_epochs,   \* all_win_epochs and all_loss_epochs
    all_evokeds,  \* all_win_evokeds and all_loss_evokeds
    label,        \* a condition label given to the file-name formatting
    name,         \* the file name formatted from subject_id and label
    err,          \* the exception that ended the running function
    runs          \* number of create_evokeds calls started

vars == <<pc, env, heap, raw, ret, ica, ic_labels, exclude_idx, subject_id,
          events, event_id, dirs, files, fam, i, todo, epochs, reject,
          all_epochs, all_evokeds, label, name, err, runs>>

icaVars == <<ica, ic_labels, exclude_idx>>
evkVars == <<subject_id, events, event_id, dirs, files, fam, i, todo,
             epochs, reject, all_epochs, all_evokeds, label, name, runs>>

Hz(x) == 10 * x

(***************************************************************************)
(* Bounds of the model.                                                    *)
(***************************************************************************)
MaxRuns == 2          \* calls of create_evokeds on the same signal
MaxLabelLen == 3      \* length of the arbitrary labels given to FileName

(***************************************************************************)
(* preprocess_subject                                                      *)
(***************************************************************************)
resample_sfreq == 250
n_components == 20
ceiling_uV == 120

\* The recording read_raw_bids returns: not yet loaded, no montage, the
\* recording's own sample rate, its annotation track.
LoadedRaw(d) ==
    [sfreq |-> d.sfreq, montage |-> FALSE, preload |-> FALSE,
     ref |-> "original", ops |-> << >>, sources |-> {}, annot |-> d.annot]

Mutate(r, op) == [r EXCEPT !.ops = Append(@, op)]

\* An exception nothing catches ends the function.
Abort(e) ==
    /\ pc' = "aborted"
    /\ err' = e

\* line 22: raw = read_raw_bids(bids_path)
PreRead ==
    /\ pc = "pre_read"
    /\ IF env.exists
       THEN /\ heap' = Append(heap, LoadedRaw(env))
            /\ raw' = Len(heap) + 1
            /\ pc' = "pre_montage"
            /\ UNCHANGED err
       ELSE /\ Abort("FileNotFoundError")
            /\ UNCHANGED <<heap, raw>>
    /\ UNCHANGED <<env, ret, icaVars, evkVars>>

SetMontage(h, r) == [h EXCEPT ![r].montage = TRUE]

\* lines 27-28: raw.set_montage(easycap_montage), which raises when the
\* recording's channel labels are not those of the layout
PreMontage ==
    /\ pc = "pre_montage"
    /\ IF env.layout_ok
       THEN /\ heap' = SetMontage(heap, raw)
            /\ pc' = "pre_resample"
            /\ UNCHANGED err
       ELSE /\ Abort("ValueError(montage)")
            /\ UNCHANGED heap
    /\ UNCHANGED <<env, raw, ret, icaVars, evkVars>>

ResampleKeepRate(h, r, rate) ==
    [h EXCEPT ![r] = Mutate(@, [op |-> "resample", a |-> rate, b |-> 0])]

Resample(h, r, rate) ==
    [h EXCEPT ![r] = Mutate([@ EXCEPT !.sfreq = rate],
                            [op |-> "resample", a |-> rate, b |-> 0])]

\* line 30: raw.resample(250, npad="auto")
PreResample ==
    /\ pc = "pre_resample"
    /\ heap' = Resample(heap, raw, resample_sfreq)
    /\ pc' = "pre_load"
    /\ UNCHANGED <<env, raw, ret, err, icaVars, evkVars>>

LoadData(h, r) == [h EXCEPT ![r].preload = TRUE]

\* line 34: raw.load_data()
PreLoad ==
    /\ pc = "pre_load"
    /\ heap' = LoadData(heap, raw)
    /\ pc' = "pre_filter"
    /\ UNCHANGED <<env, raw, ret, err, icaVars, evkVars>>

\* raw.filter(l_freq, h_freq, ...), in place; a = l_freq, b = h_freq, and a
\* filter without a lower edge (l_freq=None, a low-pass) has a = 0
Filter(h, r, l_freq, h_freq) ==
    [h EXCEPT ![r] = Mutate(@, [op |-> "filter", a |-> l_freq, b |-> h_freq])]

\* line 37: raw.filter(l_freq=0.1, h_freq=100, ...)
PreFilter ==
    /\ pc = "pre_filter"
    /\ heap' = Filter(heap, raw, 1, Hz(100))
    /\ pc' = "pre_notch"
    /\ UNCHANGED <<env, raw, ret, err, icaVars, evkVars>>

NotchFilter(h, r, freq) ==
    [h EXCEPT ![r] = Mutate(@, [op |-> "notch_filter", a |-> freq, b |-> 0])]

\* lines 38-39: raw.notch_filter(freqs=[50], ...)
PreNotch ==
    /\ pc = "pre_notch"
    /\ heap' = NotchFilter(heap, raw, Hz(50))
    /\ pc' = "pre_return"
    /\ UNCHANGED <<env, raw, ret, err, icaVars, evkVars>>

\* line 45: return raw
PreReturn ==
    /\ pc = "pre_return"
    /\ ret' = raw
    /\ pc' = "pre_returned"
    /\ UNCHANGED <<env, heap, raw, err, icaVars, evkVars>>

(***************************************************************************)
(* run_ica                                                                 *)
(***************************************************************************)
Components == 0 .. (n_components - 1)

\* The categories the classifier answers with.
IcLabels ==
    {"brain", "muscle artifact", "eye blink", "heart beat", "line noise",
     "channel noise", "other"}

\* The classifier's possible answers for the 20 components that the model
\* explores: one label everywhere but at one component, and two labels
\* alternating with period 2 or 3.
LabelAssignments ==
    { [n \in 1 .. n_components |-> IF n = odd THEN b ELSE a] :
        a \in IcLabels, b \in IcLabels, odd \in 1 .. n_components }
    \cup
    { [n \in 1 .. n_components |-> IF n % m = r THEN b ELSE a] :
        a \in IcLabels, b \in IcLabels, m \in {2, 3}, r \in {0, 1} }

\* The notebook calls run_ica on what preprocess_subject returned.
IcaCall ==
    /\ pc = "pre_returned"
    /\ raw' = ret
    /\ ret' = 0
    /\ pc' = "ica_ref"
    /\ UNCHANGED <<env, heap, err, icaVars, evkVars>>

SetEegReference(h, r) ==
    [h EXCEPT ![r] = Mutate([@ EXCEPT !.ref = "average"],
                            [op |-> "set_eeg_reference", a |-> 0, b |-> 0])]

\* line 55: raw.set_eeg_reference('average')
IcaReference ==
    /\ pc = "ica_ref"
    /\ heap' = SetEegReference(heap, raw)
    /\ pc' = "ica_fit"
    /\ UNCHANGED <<env, raw, ret, err, icaVars, evkVars>>

\* lines 58-59: ica = ICA(n_components=20, ...); ica.fit(raw)
IcaFit ==
    /\ pc = "ica_fit"
    /\ ica' = [n |-> n_components, fitted_on |-> heap[raw].ops,
               exclude |-> << >>]
    /\ pc' = "ica_label"
    /\ UNCHANGED <<env, heap, raw, ret, err, ic_labels, exclude_idx, evkVars>>

\* line 61: ic_labels = label_components(raw, ica, method='iclabel')
IcaLabel ==
    /\ pc = "ica_label"
    /\ \E ls \in LabelAssignments : ic_labels' = ls
    /\ pc' = "ica_select"
    /\ UNCHANGED <<env, heap, raw, ret, err, ica, exclude_idx, evkVars>>

KeptLabelsBrainOnly == {"brain"}

\* line 63: the labels a component keeps its place with
KeptLabels == {"brain", "other"}

\* lines 62-64: [idx for idx, label in enumerate(labels) if label not in [...]]
RECURSIVE Comprehension(_, _)
Comprehension(labels, n) ==
    IF n = 0 THEN << >>
    ELSE LET rest == Comprehension(labels, n - 1)
         IN  IF labels[n] \notin KeptLabels
             THEN Append(rest, n - 1)
             ELSE rest

IcaSelect ==
    /\ pc = "ica_select"
    /\ exclude_idx' = Comprehension(ic_labels, Len(ic_labels))
    /\ pc' = "ica_exclude"
    /\ UNCHANGED <<env, heap, raw, ret, err, ica, ic_labels, evkVars>>

\* line 84: ica.exclude = exclude_idx
IcaSetExclude ==
    /\ pc = "ica_exclude"
    /\ ica' = [ica EXCEPT !.exclude = exclude_idx]
    /\ pc' = "ica_apply"
    /\ UNCHANGED <<env, heap, raw, ret, err, ic_labels, exclude_idx, evkVars>>

Range(s) == { s[n] : n \in DOMAIN s }

ApplyOnCopy(h, r, excl) ==
    Append(h, Mutate([h[r] EXCEPT !.sources = Components \ Range(excl)],
                     [op |-> "ica.apply", a |-> Len(excl), b |-> 0]))

\* line 89: ica.apply(raw) rebuilds the signal, in place, from the components
\* that are not in ica.exclude
Apply(h, r, excl) ==
    [h EXCEPT ![r] =
        Mutate([@ EXCEPT !.sources = Components \ Range(excl)],
               [op |-> "ica.apply", a |-> Len(excl), b |-> 0])]

IcaApply ==
    /\ pc = "ica_apply"
    /\ heap' = Apply(heap, raw, ica.exclude)
    /\ pc' = "ica_filter"
    /\ UNCHANGED <<env, raw, ret, err, icaVars, evkVars>>

\* line 92: raw.filter(l_freq=0.1, h_freq=30, ...)
IcaFilter ==
    /\ pc = "ica_filter"
    /\ heap' = Filter(heap, raw, 1, Hz(30))
    /\ pc' = "ica_return"
    /\ UNCHANGED <<env, raw, ret, err, icaVars, evkVars>>

\* line 100: return raw; the locals go out of scope
IcaReturn ==
    /\ pc = "ica_return"
    /\ ret' = raw
    /\ ica' = [n |-> 0, fitted_on |-> << >>, exclude |-> << >>]
    /\ ic_labels' = << >>
    /\ exclude_idx' = << >>
    /\ pc' = "ica_returned"
    /\ UNCHANGED <<env, heap, raw, err, evkVars>>

(***************************************************************************)
(* create_evokeds                                                          *)
(***************************************************************************)
Low == <<"l", "o", "w">>
Mid == <<"m", "i", "d">>
High == <<"h", "i", "g", "h">>
Win == <<"w", "i", "n">>
Loss == <<"l", "o", "s", "s">>

\* "<outcome> (<task>-task, <cue>-cue)"
Label(outcome, task, cue) ==
    outcome \o <<" ", "(">> \o task \o <<"-", "t", "a", "s", "k", ",", " ">>
            \o cue \o <<"-", "c", "u", "e", ")">>

\* lines 117-122, in insertion order
win_events ==
    << [key |-> "S  6", event_type |-> Label(Win, Low, Low)],
       [key |-> "S 16", event_type |-> Label(Win, Mid, Low)],
       [key |-> "S 26", event_type |-> Label(Win, Mid, High)],
       [key |-> "S 36", event_type |-> Label(Win, High, High)] >>

LossEventsDuplicate ==
    << [key |-> "S  7", event_type |-> Label(Loss, Low, Low)],
       [key |-> "S 17", event_type |-> Label(Loss, Low, Low)],
       [key |-> "S 27", event_type |-> Label(Loss, Mid, High)],
       [key |-> "S 37", event_type |-> Label(Loss, High, High)] >>

\* lines 123-128, in insertion order
loss_events ==
    << [key |-> "S  7", event_type |-> Label(Loss, Low, Low)],
       [key |-> "S 17", event_type |-> Label(Loss, Mid, Low)],
       [key |-> "S 27", event_type |-> Label(Loss, Mid, High)],
       [key |-> "S 37", event_type |-> Label(Loss, High, High)] >>

Dict(f) == IF f = "win" THEN win_events ELSE loss_events

\* The 8 sub-conditions in the order the two loops visit them.
Conditions ==
    [n \in 1 .. (Len(win_events) + Len(loss_events)) |->
        IF n <= Len(win_events)
        THEN [fam |-> "win", i |-> n]
        ELSE [fam |-> "loss", i |-> n - Len(win_events)]]

\* f"Stimulus/{key}"
Description(key) == "Stimulus/" \o key

Descriptions ==
    { Description(Dict(c.fam)[c.i].key) : c \in {Conditions[n] : n \in DOMAIN Conditions} }

\* The integer code events_from_annotations gives a marker description.
MarkerCode ==
    [d \in Descriptions |->
        CASE d = "Stimulus/S  6" -> 6   [] d = "Stimulus/S 16" -> 16
          [] d = "Stimulus/S 26" -> 26  [] d = "Stimulus/S 36" -> 36
          [] d = "Stimulus/S  7" -> 7   [] d = "Stimulus/S 17" -> 17
          [] d = "Stimulus/S 27" -> 27  [] d = "Stimulus/S 37" -> 37]

\* line 115
reject_criteria == [eeg |-> ceiling_uV]

\* line 111: events, event_id = mne.events_from_annotations(raw).  A row is
\* one marker occurrence: where it is in the signal, and its code.
EventsFromAnnotations(r) ==
    [events |-> UNION { { [pos |-> <<d, n>>, code |-> MarkerCode[d]] :
                            n \in 1 .. Len(r.annot[d]) } : d \in DOMAIN r.annot },
     event_id |-> [d \in DOMAIN r.annot |-> MarkerCode[d]]]

\* The window of the signal around one marker occurrence.
WindowAt(r, pos) == r.annot[pos[1]][pos[2]]

\* lines 143-146: mne.Epochs(raw, events, event_id=code, reject=crit,
\* preload=True, reject_by_annotation=True): the windows around the rows of
\* that code, in time order, without those overlapping a bad annotation and
\* those whose peak-to-peak amplitude exceeds the ceiling.
Surviving(ws, crit) ==
    LET Good(w) == ~w.bad /\ ~(w.ptp > crit.eeg)
    IN  SelectSeq(ws, Good)

Epochs(r, evs, code, crit) ==
    LET rows == { e \in evs : e.code = code }
        all == [n \in 1 .. Cardinality(rows) |->
                  WindowAt(r, (CHOOSE e \in rows : e.pos[2] = n).pos)]
    IN  [data |-> Surviving(all, crit), reject |-> crit]

\* line 148: reject = get_rejection_threshold(epochs, decim=2), the external
\* estimator: a fixed function of the windows that answers with a threshold
\* or raises.
GetRejectionThreshold(ep) == env.estimator[ep.data]

DropBadNone(ep, rej) == [data |-> ep.data, reject |-> rej]

\* line 150: epochs.drop_bad(reject=reject)
DropBad(ep, rej) ==
    LET Good(w) == ~(w.ptp > rej.eeg)
    IN  [data |-> SelectSeq(ep.data, Good), reject |-> rej]

RECURSIVE SumPtp(_)
SumPtp(ws) == IF ws = << >> THEN 0 ELSE Head(ws).ptp + SumPtp(Tail(ws))

\* line 153: epochs.average(): the mean of the windows, kept as the number of
\* windows averaged and their sum.
Average(ep) == [nave |-> Len(ep.data), sum |-> SumPtp(ep.data)]

ReplaceFirst(s, old, new) ==
    IF \E n \in 1 .. Len(s) : SubSeq(s, n, n + Len(old) - 1) = old
    THEN LET n == CHOOSE m \in 1 .. Len(s) :
                    /\ SubSeq(s, m, m + Len(old) - 1) = old
                    /\ \A k \in 1 .. (m - 1) : SubSeq(s, k, k + Len(old) - 1) # old
         IN  SubSeq(s, 1, n - 1) \o new \o SubSeq(s, n + Len(old), Len(s))
    ELSE s

\* str.replace(old, new): every non-overlapping occurrence, left to right
RECURSIVE Replace(_, _, _)
Replace(s, old, new) ==
    IF Len(s) < Len(old) THEN s
    ELSE IF SubSeq(s, 1, Len(old)) = old
         THEN new \o Replace(SubSeq(s, Len(old) + 1, Len(s)), old, new)
         ELSE <<Head(s)>> \o Replace(Tail(s), old, new)

FifDir == <<"f", "i", "f", "-", "f", "i", "l", "e", "s">>

SaveNameNoLabel(sid, event_type) ==
    <<"s", "u", "b", "j", "e", "c", "t">> \o sid
        \o <<"_", "f", "e", "e", "d", "b", "a", "c", "k", "_">>
        \o <<"-", "a", "v", "e", ".", "f", "i", "f">>

\* lines 156, 173: the file's name in
\* f"fif-files/subject{subject_id}_feedback_{event_type.replace(' ', '-')}-ave.fif"
SaveName(sid, event_type) ==
    <<"s", "u", "b", "j", "e", "c", "t">> \o sid
        \o <<"_", "f", "e", "e", "d", "b", "a", "c", "k", "_">>
        \o Replace(event_type, <<" ">>, <<"-">>)
        \o <<"-", "a", "v", "e", ".", "f", "i", "f">>

SavePath(sid, event_type) == FifDir \o <<"/">> \o SaveName(sid, event_type)

\* A dictionary with d[k] = v set
Put(d, k, v) == (k :> v) @@ d

NoDicts == [win |-> << >>, loss |-> << >>]
NoEpochs == [data |-> << >>, reject |-> [eeg |-> 0]]
NoIca == [n |-> 0, fitted_on |-> << >>, exclude |-> << >>]

Cur == Dict(fam)[i]

SubjectIds == { <<"0", "1">>, <<"1", "2">> }

\* The notebook calls create_evokeds on what run_ica returned.
EvkCall ==
    /\ pc = "ica_returned"
    /\ raw' = ret
    /\ ret' = 0
    /\ subject_id' = env.subject
    /\ runs' = runs + 1
    /\ pc' = "evk_events"
    /\ UNCHANGED <<env, heap, err, icaVars, events, event_id, dirs, files,
                   fam, i, todo, epochs, reject, all_epochs, all_evokeds,
                   label, name>>

\* The notebook cell is run again, on the same signal and subject.
Rerun ==
    /\ pc = "evk_returned"
    /\ runs < MaxRuns
    /\ runs' = runs + 1
    /\ pc' = "evk_events"
    /\ UNCHANGED <<env, heap, raw, ret, err, icaVars, subject_id, events,
                   event_id, dirs, files, fam, i, todo, epochs, reject,
                   all_epochs, all_evokeds, label, name>>

\* lines 111-134
EvkEvents ==
    /\ pc = "evk_events"
    /\ events' = EventsFromAnnotations(heap[raw]).events
    /\ event_id' = EventsFromAnnotations(heap[raw]).event_id
    /\ all_epochs' = NoDicts
    /\ all_evokeds' = NoDicts
    /\ pc' = "evk_mkdir"
    /\ UNCHANGED <<env, heap, raw, ret, err, icaVars, subject_id, dirs, files,
                   fam, i, todo, epochs, reject, label, name, runs>>

NeedsMkdirAlways(d) == TRUE

\* line 139: if not os.path.isdir("fif-files")
NeedsMkdir(d) == ~d

\* lines 139-140; os.mkdir raises when the directory exists
EvkMkdir ==
    /\ pc = "evk_mkdir"
    /\ IF NeedsMkdir(dirs)
       THEN IF dirs
            THEN /\ Abort("FileExistsError")
                 /\ UNCHANGED <<dirs, fam, i>>
            ELSE /\ dirs' = TRUE
                 /\ pc' = "for"
                 /\ fam' = "win"
                 /\ i' = 0
                 /\ UNCHANGED err
       ELSE /\ pc' = "for"
            /\ fam' = "win"
            /\ i' = 0
            /\ UNCHANGED <<dirs, err>>
    /\ UNCHANGED <<env, heap, raw, ret, icaVars, subject_id, events, event_id,
                   files, todo, epochs, reject, all_epochs, all_evokeds,
                   label, name, runs>>

\* line 142: for key, event_type in win_events.items()
ForWin ==
    /\ pc = "for"
    /\ fam = "win"
    /\ IF i < Len(win_events)
       THEN /\ i' = i + 1
            /\ pc' = "extract"
            /\ UNCHANGED fam
       ELSE /\ fam' = "loss"
            /\ i' = 0
            /\ pc' = "for"
    /\ UNCHANGED <<env, heap, raw, ret, err, icaVars, subject_id, events,
                   event_id, dirs, files, todo, epochs, reject, all_epochs,
                   all_evokeds, label, name, runs>>

\* line 159: for key, event_type in loss_events.items()
ForLoss ==
    /\ pc = "for"
    /\ fam = "loss"
    /\ IF i < Len(loss_events)
       THEN /\ i' = i + 1
            /\ pc' = "extract"
       ELSE /\ pc' = "evk_return"
            /\ UNCHANGED i
    /\ UNCHANGED <<env, heap, raw, ret, err, icaVars, subject_id, events,
                   event_id, dirs, files, fam, todo, epochs, reject,
                   all_epochs, all_evokeds, label, name, runs>>

\* The loops' headers with the 8 sub-conditions taken in any order.
PickNext ==
    /\ pc = "for"
    /\ IF todo = {}
       THEN /\ pc' = "evk_return"
            /\ UNCHANGED <<fam, i, todo>>
       ELSE \E n \in todo :
            /\ fam' = Conditions[n].fam
            /\ i' = Conditions[n].i
            /\ todo' = todo \ {n}
            /\ pc' = "extract"
    /\ UNCHANGED <<env, heap, raw, ret, err, icaVars, subject_id, events,
                   event_id, dirs, files, epochs, reject, all_epochs,
                   all_evokeds, label, name, runs>>

ExtractSkip(f) ==
    /\ pc = "extract"
    /\ fam = f
    /\ IF Description(Cur.key) \in DOMAIN event_id
       THEN /\ epochs' = Epochs(heap[raw], events,
                                event_id[Description(Cur.key)], reject_criteria)
            /\ pc' = "estimate"
       ELSE /\ pc' = "for"
            /\ UNCHANGED epochs
    /\ UNCHANGED <<env, heap, raw, ret, err, icaVars, subject_id, events,
                   event_id, dirs, files, fam, i, todo, reject, all_epochs,
                   all_evokeds, label, name, runs>>

\* lines 143-146 and 160-163; event_id[...] raises on a marker that is not
\* in the track
Extract(f) ==
    /\ pc = "extract"
    /\ fam = f
    /\ IF Description(Cur.key) \in DOMAIN event_id
       THEN /\ epochs' = Epochs(heap[raw], events,
                                event_id[Description(Cur.key)], reject_criteria)
            /\ pc' = "estimate"
            /\ UNCHANGED err
       ELSE /\ Abort("KeyError")
            /\ UNCHANGED epochs
    /\ UNCHANGED <<env, heap, raw, ret, icaVars, subject_id, events, event_id,
                   dirs, files, fam, i, todo, reject, all_epochs, all_evokeds,
                   label, name, runs>>

\* lines 148 and 165
Estimate(f) ==
    /\ pc = "estimate"
    /\ fam = f
    /\ IF GetRejectionThreshold(epochs).raised
       THEN /\ Abort("EstimatorError")
            /\ UNCHANGED reject
       ELSE /\ reject' = [eeg |-> GetRejectionThreshold(epochs).eeg]
            /\ pc' = "drop_bad"
            /\ UNCHANGED err
    /\ UNCHANGED <<env, heap, raw, ret, icaVars, subject_id, events, event_id,
                   dirs, files, fam, i, todo, epochs, all_epochs, all_evokeds,
                   label, name, runs>>

\* lines 150 and 167.  A library that insists on thresholds at least as
\* stringent as those the windows were extracted with raises on a looser one.
DropBadStep(f) ==
    /\ pc = "drop_bad"
    /\ fam = f
    /\ IF env.strict_reject /\ reject.eeg > epochs.reject.eeg
       THEN /\ Abort("ValueError(reject)")
            /\ UNCHANGED epochs
       ELSE /\ epochs' = DropBad(epochs, reject)
            /\ pc' = "average"
            /\ UNCHANGED err
    /\ UNCHANGED <<env, heap, raw, ret, icaVars, subject_id, events, event_id,
                   dirs, files, fam, i, todo, reject, all_epochs, all_evokeds,
                   label, name, runs>>

\* lines 152-153 and 169-170
AverageStep(f) ==
    /\ pc = "average"
    /\ fam = f
    /\ all_epochs' = [all_epochs EXCEPT ![f] = Put(@, Cur.event_type, epochs)]
    /\ all_evokeds' =
          [all_evokeds EXCEPT ![f] = Put(@, Cur.event_type, Average(epochs))]
    /\ pc' = "save"
    /\ UNCHANGED <<env, heap, raw, ret, err, icaVars, subject_id, events,
                   event_id, dirs, files, fam, i, todo, epochs, reject,
                   label, name, runs>>

\* lines 155-156 and 172-173: Evoked.save(path, overwrite=True)
Save(f) ==
    /\ pc = "save"
    /\ fam = f
    /\ files' = Put(files, SavePath(subject_id, Cur.event_type),
                    all_evokeds[f][Cur.event_type])
    /\ pc' = "for"
    /\ UNCHANGED <<env, heap, raw, ret, err, icaVars, subject_id, events,
                   event_id, dirs, fam, i, todo, epochs, reject, all_epochs,
                   all_evokeds, label, name, runs>>

WinExtract == Extract("win")
WinEstimate == Estimate("win")
WinDropBad == DropBadStep("win")
WinAverage == AverageStep("win")
WinSave == Save("win")
LossExtract == Extract("loss")
LossEstimate == Estimate("loss")
LossDropBad == DropBadStep("loss")
LossAverage == AverageStep("loss")
LossSave == Save("loss")

\* the end of create_evokeds: it returns nothing
EvkReturn ==
    /\ pc = "evk_return"
    /\ ret' = 0
    /\ pc' = "evk_returned"
    /\ UNCHANGED <<env, heap, raw, err, icaVars, evkVars>>

\* The file name of a label, computed on its own.
Format ==
    /\ pc = "format"
    /\ name' = SaveName(subject_id, label)
    /\ pc' = "formatted"
    /\ UNCHANGED <<env, heap, raw, ret, err, icaVars, subject_id, events,
                   event_id, dirs, files, fam, i, todo, epochs, reject,
                   all_epochs, all_evokeds, label, runs>>

(***************************************************************************)
(* Inputs and specifications                                               *)
(***************************************************************************)
W(p, b) == [ptp |-> p, bad |-> b]

\* Window sets of one marker: amplitudes below, at and above the 120 uV
\* ceiling, and a window inside a bad-data annotation.
Profiles ==
    { << W(60, FALSE) >>,
      << W(60, FALSE), W(120, FALSE) >>,
      << W(130, FALSE), W(60, TRUE) >>,
      << W(130, FALSE), W(120, FALSE), W(60, FALSE) >> }


\* Annotation tracks: every marker has the windows b, but one marker that
\* has the windows o; no windows means the marker is not in the track.
Annots(Ps) ==
    { [d \in { x \in Descriptions : (IF x = odd THEN o ELSE b) # << >> } |->
          IF d = odd THEN o ELSE b] :
        b \in Ps \cup {<< >>}, o \in Ps \cup {<< >>}, odd \in Descriptions }

\* A track with all 8 markers, the win and the loss markers with different
\* windows.
FullAnnot ==
    [d \in Descriptions |->
        IF MarkerCode[d] % 10 = 6
        THEN << W(60, FALSE), W(120, FALSE) >>
        ELSE << W(130, FALSE), W(60, FALSE) >>]

\* That track, and the same with one marker missing.
MixedAnnots ==
    { FullAnnot, [d \in Descriptions \ {"Stimulus/S 26"} |-> FullAnnot[d]] }

\* What the estimator can answer: an exception, a threshold tighter than
\* the ceiling, a threshold looser than the ceiling.
Outcomes ==
    { [raised |-> TRUE, eeg |-> 0], [raised |-> FALSE, eeg |-> 100],
      [raised |-> FALSE, eeg |-> 200] }

\* The estimators on the window sets that a track can give it.
Estimators(annot) ==
    [ { Surviving(annot[d], reject_criteria) : d \in DOMAIN annot } -> Outcomes ]

Envs(subjects, exists, layouts, rates, annots) ==
    UNION { { [subject |-> sid, exists |-> e, layout_ok |-> l, sfreq |-> f,
               annot |-> a, estimator |-> g, strict_reject |-> s] :
                sid \in subjects, e \in exists, l \in layouts, f \in rates,
                s \in BOOLEAN, g \in Estimators(a) } : a \in annots }

\* The signal of a recording after preprocess_subject and run_ica, the
\* components excl removed.
Cleaned(d, excl) ==
    Filter(
      Apply(
        SetEegReference(
          NotchFilter(
            Filter(
              LoadData(
                Resample(SetMontage(<< LoadedRaw(d) >>, 1), 1, resample_sfreq), 1),
              1, 1, Hz(100)),
            1, Hz(50)),
          1),
        1, excl),
      1, 1, Hz(30))

InitLocals ==
    /\ ica = NoIca
    /\ ic_labels = << >>
    /\ exclude_idx = << >>
    /\ subject_id = << >>
    /\ events = {}
    /\ event_id = << >>
    /\ files = << >>
    /\ fam = "win"
    /\ i = 0
    /\ epochs = NoEpochs
    /\ reject = [eeg |-> 0]
    /\ all_epochs = NoDicts
    /\ all_evokeds = NoDicts
    /\ label = << >>
    /\ name = << >>
    /\ err = ""
    /\ runs = 0

\* The whole notebook: preprocess_subject, run_ica, create_evokeds.
Init ==
    /\ pc = "pre_read"
    /\ env \in Envs(SubjectIds, BOOLEAN, BOOLEAN, {250, 1000}, {FullAnnot})
    /\ heap = << >>
    /\ raw = 0
    /\ ret = 0
    /\ dirs = FALSE
    /\ todo = {}
    /\ InitLocals

PreNext ==
    \/ PreRead \/ PreMontage \/ PreResample \/ PreLoad \/ PreFilter
    \/ PreNotch \/ PreReturn

IcaNext ==
    \/ IcaCall \/ IcaReference \/ IcaFit \/ IcaLabel \/ IcaSelect
    \/ IcaSetExclude \/ IcaApply \/ IcaFilter \/ IcaReturn

BodyNext ==
    \/ WinExtract \/ WinEstimate \/ WinDropBad \/ WinAverage \/ WinSave
    \/ LossExtract \/ LossEstimate \/ LossDropBad \/ LossAverage \/ LossSave

EvkNext ==
    \/ EvkCall \/ EvkEvents \/ EvkMkdir \/ ForWin \/ ForLoss \/ BodyNext
    \/ EvkReturn

Next == PreNext \/ IcaNext \/ EvkNext

Spec == Init /\ [][Next]_vars

\* create_evokeds on a cleaned signal, and the cell run again.
InitEvk ==
    /\ pc = "ica_returned"
    /\ env \in Envs({<<"0", "1">>}, {TRUE}, {TRUE}, {1000}, Annots(Profiles))
    /\ heap = Cleaned(env, << 0 >>)
    /\ raw = 1
    /\ ret = 1
    /\ dirs \in BOOLEAN
    /\ todo = {}
    /\ InitLocals

NextEvk == EvkNext \/ Rerun

SpecEvk == InitEvk /\ [][NextEvk]_vars

\* create_evokeds with its 8 sub-conditions taken in any order.
InitAnyOrder ==
    /\ pc = "ica_returned"
    /\ env \in Envs({<<"0", "1">>}, {TRUE}, {TRUE}, {1000}, MixedAnnots)
    /\ heap = Cleaned(env, << 0 >>)
    /\ raw = 1
    /\ ret = 1
    /\ dirs = FALSE
    /\ todo = DOMAIN Conditions
    /\ InitLocals

NextAnyOrder ==
    \/ EvkCall \/ EvkEvents \/ EvkMkdir \/ PickNext \/ BodyNext \/ EvkReturn

SpecAnyOrder == InitAnyOrder /\ [][NextAnyOrder]_vars

\* The file name of arbitrary labels.
Alphabet == {" ", "-", ",", "a"}

RECURSIVE Strings(_)
Strings(n) ==
    IF n = 0 THEN { << >> }
    ELSE LET shorter == Strings(n - 1)
         IN  shorter \cup { Append(t, c) : t \in shorter, c \in Alphabet }

EventTypes ==
    { Dict(c.fam)[c.i].event_type : c \in { Conditions[n] : n \in DOMAIN Conditions } }

InitName ==
    /\ pc = "format"
    /\ env = [exists |-> FALSE]
    /\ heap = << >>
    /\ raw = 0
    /\ ret = 0
    /\ dirs = FALSE
    /\ todo = {}
    /\ ica = NoIca
    /\ ic_labels = << >>
    /\ exclude_idx = << >>
    /\ subject_id \in SubjectIds
    /\ events = {}
    /\ event_id = << >>
    /\ files = << >>
    /\ fam = "win"
    /\ i = 0
    /\ epochs = NoEpochs
    /\ reject = [eeg |-> 0]
    /\ all_epochs = NoDicts
    /\ all_evokeds = NoDicts
    /\ label \in Strings(MaxLabelLen) \cup EventTypes
    /\ name = << >>
    /\ err = ""
    /\ runs = 0

NextName == Format

SpecName == InitName /\ [][NextName]_vars

(***************************************************************************)
(* The two loops as one function of the inputs: the files after the        *)
(* sub-conditions n, n+1, ..., 8 are processed in the code's order, from   *)
(* the files fs.                                                           *)
(***************************************************************************)
RECURSIVE LoopsFrom(_, _, _, _)
LoopsFrom(n, fs, r, sid) ==
    IF n > Len(Conditions) THEN fs
    ELSE LET c == Dict(Conditions[n].fam)[Conditions[n].i]
             ev == EventsFromAnnotations(r)
         IN  IF Description(c.key) \notin DOMAIN ev.event_id THEN fs
             ELSE LET ep == Epochs(r, ev.events, ev.event_id[Description(c.key)],
                                   reject_criteria)
                      o == GetRejectionThreshold(ep)
                  IN  IF o.raised THEN fs
                      ELSE IF env.strict_reject /\ o.eeg > ep.reject.eeg THEN fs
                      ELSE LoopsFrom(n + 1,
                                     Put(fs, SavePath(sid, c.event_type),
                                         Average(DropBad(ep, [eeg |-> o.eeg]))),
                                     r, sid)

CodeOrderFiles == LoopsFrom(1, << >>, heap[raw], subject_id)

(***************************************************************************)
(* Properties                                                              *)
(***************************************************************************)
CondAt(n) == Dict(Conditions[n].fam)[Conditions[n].i]
CondIndex == IF fam = "win" THEN i ELSE Len(win_events) + i
PathAt(n) == SavePath(subject_id, CondAt(n).event_type)
EvokedAt(n) == all_evokeds[Conditions[n].fam][CondAt(n).event_type]

\* C1: in run_ica, for every assignment of labels to the 20 components, the
\* excluded set given to the decomposition is exactly the components whose
\* label is neither "brain" nor "other"; the components the reconstruction
\* retains and the excluded ones are disjoint and together are {0..19}.
C1_ExcludedSet ==
    /\ pc \in {"ica_apply", "ica_filter", "ica_return"} =>
          /\ Len(ic_labels) = 20
          /\ Range(ica.exclude) =
                { c \in 0 .. 19 : ic_labels[c + 1] # "brain" /\ ic_labels[c + 1] # "other" }
    /\ pc \in {"ica_filter", "ica_return"} =>
          /\ heap[raw].sources \cap Range(ica.exclude) = {}
          /\ heap[raw].sources \cup Range(ica.exclude) = 0 .. 19

C1_Witness ==
    /\ pc = "ica_return"
    /\ Range(ica.exclude) # {}
    /\ heap[raw].sources # {}
    /\ \E n \in DOMAIN ic_labels : ic_labels[n] = "other"

\* C2: when create_evokeds runs to completion, 8 files are there, one per
\* sub-condition, under 8 different names, and each holds the average of its
\* own sub-condition: none was overwritten by another.
C2_EightFiles ==
    pc = "evk_returned" =>
        /\ Cardinality(DOMAIN files) = 8
        /\ \A n \in 1 .. 8 :
              /\ PathAt(n) \in DOMAIN files
              /\ files[PathAt(n)] = EvokedAt(n)
        /\ \A n, m \in 1 .. 8 : n # m => PathAt(n) # PathAt(m)

C2_Witness ==
    /\ pc = "evk_returned"
    /\ runs = 1
    /\ \E n, m \in 1 .. 8 : files[PathAt(n)] # files[PathAt(m)]

SpaceToHyphen(s) == [n \in 1 .. Len(s) |-> IF s[n] = " " THEN "-" ELSE s[n]]

WinLowLowLabel ==
    << "w", "i", "n", " ", "(", "l", "o", "w", "-", "t", "a", "s", "k", ",",
       " ", "l", "o", "w", "-", "c", "u", "e", ")" >>

WinLowLowName01 ==
    << "s", "u", "b", "j", "e", "c", "t", "0", "1", "_", "f", "e", "e", "d",
       "b", "a", "c", "k", "_", "w", "i", "n", "-", "(", "l", "o", "w", "-",
       "t", "a", "s", "k", ",", "-", "l", "o", "w", "-", "c", "u", "e", ")",
       "-", "a", "v", "e", ".", "f", "i", "f" >>

\* C3: the file name is "subject" + subject id + "_feedback_" + the label
\* with every space turned into a hyphen and every other character kept +
\* "-ave.fif"; for subject "01" and "win (low-task, low-cue)" it is
\* subject01_feedback_win-(low-task,-low-cue)-ave.fif.
C3_FileName ==
    pc = "formatted" =>
        /\ name = << "s", "u", "b", "j", "e", "c", "t" >> \o subject_id
                    \o << "_", "f", "e", "e", "d", "b", "a", "c", "k", "_" >>
                    \o SpaceToHyphen(label)
                    \o << "-", "a", "v", "e", ".", "f", "i", "f" >>
        /\ (subject_id = << "0", "1" >> /\ label = WinLowLowLabel)
              => name = WinLowLowName01

C3_Witness ==
    /\ pc = "formatted"
    /\ subject_id = << "0", "1" >>
    /\ label = WinLowLowLabel
    /\ name = WinLowLowName01

Absent(n) == Description(CondAt(n).key) \notin DOMAIN heap[raw].annot

\* C4: a sub-condition whose marker is not in the annotation track never
\* gets a file, nor does any sub-condition after it; the function reaches no
\* step past the lookup for it, and ends on the KeyError at the first such
\* sub-condition with exactly the files of the sub-conditions before it.
C4_MissingMarker ==
    /\ \A n \in 1 .. 8 : Absent(n) =>
          \A m \in n .. 8 : PathAt(m) \notin DOMAIN files
    /\ pc \in {"estimate", "drop_bad", "average", "save"} => ~Absent(CondIndex)
    /\ (pc = "aborted" /\ err = "KeyError") =>
          /\ Absent(CondIndex)
          /\ \A n \in 1 .. (CondIndex - 1) : ~Absent(n)
          /\ DOMAIN files = { PathAt(n) : n \in 1 .. (CondIndex - 1) }
          /\ \A n \in 1 .. (CondIndex - 1) : files[PathAt(n)] = EvokedAt(n)

C4_Witness ==
    /\ pc = "aborted"
    /\ err = "KeyError"
    /\ CondIndex > 2
    /\ Cardinality(DOMAIN files) = CondIndex - 1

RerunStep ==
    runs >= 2 => (files' = files /\ dirs' = dirs /\ pc' # "aborted")

\* C5: in a second run of create_evokeds on the same subject and signal no
\* step changes a file or the directory and no step fails, so the directory
\* holds the same 8 files with the same content as after the first run.
C5_Rerun ==
    /\ [](runs >= 2 => Cardinality(DOMAIN files) = 8)
    /\ [][RerunStep]_vars

C5_Witness ==
    /\ runs = 2
    /\ pc = "evk_returned"
    /\ Cardinality(DOMAIN files) = 8

OwnWindows == heap[raw].annot[Description(Cur.key)]

UnderCeiling(w) == ~w.bad /\ w.ptp <= 120

UnderBoth(w) == ~w.bad /\ w.ptp <= 120 /\ w.ptp <= reject.eeg

\* C7: in each sub-condition the threshold is estimated from the windows
\* that passed the extraction (no bad annotation, not above 120 uV), and
\* the windows averaged and saved are exactly those of the sub-condition
\* that pass both the extraction and the adaptive threshold.
C7_AveragedWindows ==
    /\ pc = "estimate" => epochs.data = SelectSeq(OwnWindows, UnderCeiling)
    /\ pc = "drop_bad" =>
          /\ epochs.data = SelectSeq(OwnWindows, UnderCeiling)
          /\ reject.eeg = env.estimator[SelectSeq(OwnWindows, UnderCeiling)].eeg
    /\ pc = "average" => epochs.data = SelectSeq(OwnWindows, UnderBoth)
    /\ pc = "save" =>
          /\ all_epochs[fam][Cur.event_type].data = SelectSeq(OwnWindows, UnderBoth)
          /\ all_evokeds[fam][Cur.event_type] =
                [nave |-> Len(SelectSeq(OwnWindows, UnderBoth)),
                 sum |-> SumPtp(SelectSeq(OwnWindows, UnderBoth))]
    /\ (pc = "for" /\ i > 0) =>
          files[SavePath(subject_id, Cur.event_type)] =
                [nave |-> Len(SelectSeq(OwnWindows, UnderBoth)),
                 sum |-> SumPtp(SelectSeq(OwnWindows, UnderBoth))]

C7_Witness ==
    /\ pc = "for"
    /\ i > 0
    /\ reject.eeg > 120
    /\ \E n \in DOMAIN OwnWindows : OwnWindows[n].ptp > 120
    /\ files[SavePath(subject_id, Cur.event_type)].nave > 0

\* C8: when run_ica returns, the last three changes of the signal are the
\* re-referencing, the reconstruction and a low-pass filter at 30 Hz (a
\* filter with no lower edge), in that order.
C8_LowPassLast ==
    pc = "ica_returned" =>
        LET ops == heap[ret].ops
            n == Len(ops)
        IN  /\ n >= 3
            /\ ops[n - 2].op = "set_eeg_reference"
            /\ ops[n - 1].op = "ica.apply"
            /\ ops[n] = [op |-> "filter", a |-> 0, b |-> 300]

ConditioningOps ==
    << [op |-> "resample", a |-> 250, b |-> 0],
       [op |-> "filter", a |-> 1, b |-> 1000],
       [op |-> "notch_filter", a |-> 500, b |-> 0] >>

PrePcs ==
    {"pre_read", "pre_montage", "pre_resample", "pre_load", "pre_filter",
     "pre_notch", "pre_return", "pre_returned"}

\* C9: preprocess_subject changes the signal by resample to 250 Hz, then
\* 0.1-100 Hz band-pass, then 50 Hz notch, each once, after the layout is
\* attached; a missing recording or a layout mismatch ends it with no later
\* step done and nothing returned; the signal it returns has sample rate
\* 250 Hz and the layout attached.
C9_Conditioning ==
    /\ (pc \in PrePcs /\ heap # << >>) =>
          /\ \E k \in 0 .. 3 : heap[1].ops = SubSeq(ConditioningOps, 1, k)
          /\ heap[1].ops # << >> => (heap[1].montage /\ heap[1].sfreq = 250)
    /\ pc = "pre_returned" =>
          /\ ret = 1
          /\ heap[ret].ops = ConditioningOps
          /\ heap[ret].sfreq = 250
          /\ heap[ret].montage
    /\ ~env.exists =>
          /\ pc \in {"pre_read", "aborted"}
          /\ heap = << >>
          /\ ret = 0
    /\ (env.exists /\ ~env.layout_ok) =>
          /\ pc \in {"pre_read", "pre_montage", "aborted"}
          /\ ret = 0
          /\ heap # << >> => (heap[1].ops = << >> /\ ~heap[1].montage)

C9_Witness ==
    /\ pc = "pre_returned"
    /\ env.sfreq = 1000
    /\ heap[ret].sfreq = 250

EvkPcs ==
    {"evk_events", "evk_mkdir", "for", "extract", "estimate", "drop_bad",
     "average", "save", "evk_return"}

EvkStep ==
    pc \in EvkPcs =>
        /\ heap' = heap
        /\ raw' = raw
        /\ (pc # "evk_events" => (events' = events /\ event_id' = event_id))

\* C10: there is one Raw Signal object; run_ica returns the object it was
\* given, which then carries the re-referencing, the reconstruction and the
\* final filter; no step of create_evokeds changes the signal, and none
\* after the first changes the event list.
C10_OneSignal ==
    /\ [](Len(heap) <= 1)
    /\ [](pc = "ica_returned" =>
            /\ ret = 1
            /\ Len(heap[ret].ops) = Len(ConditioningOps) + 3
            /\ heap[ret].ops[Len(heap[ret].ops) - 1].op = "ica.apply")
    /\ [][EvkStep]_vars

C10_Witness ==
    /\ pc = "evk_returned"
    /\ Cardinality(DOMAIN files) = 8
    /\ Len(heap) = 1

====
